---------------------------- MODULE Spec2Model ----------------------------
(***************************************************************************)
(* Model of the geometry and range layer of the round slider               *)
(* (src/src/core/domain/slider-provider.ts).                               *)
(*                                                                         *)
(* The functions are pure.  Each specification draws the inputs of one     *)
(* group of functions in its initial states and applies the functions in   *)
(* the order the component calls them:                                     *)
(*   SpecRange   : getMinMax, then getStep on the resolved bounds          *)
(*   SpecLayout  : getSVGSize, then getSVGCenter                           *)
(*   SpecPointer : getEllipseSegment, then getPointerPosition              *)
(*                                                                         *)
(* Lengths are integers counting thousandths of a pixel.  JavaScript       *)
(* values are records [t, n, s]: the type tag, the numeric payload and the *)
(* characters of a string.                                                 *)
(***************************************************************************)
EXTENDS Integers, Sequences, FiniteSets

VARIABLES
    pc,                 \* position in the call order of the specification
    min, max, data,     \* user settings handed to getMinMax
    userStep,           \* user setting handed to getStep
    minMax,             \* result of getMinMax
    step,               \* result of getStep
    svgRadii, maxPointerRadii, strokeWidth,   \* layout settings
    svgSize, svgCenter, \* results of getSVGSize and getSVGCenter
    startAngleDegrees, endAngleDegrees,       \* the active arc
    absoluteMouse, bbox,                      \* pointer event, surface box
    segment,            \* result of getEllipseSegment
    pointerPosition     \* result of getPointerPosition

vars == << pc, min, max, data, userStep, minMax, step,
           svgRadii, maxPointerRadii, strokeWidth, svgSize, svgCenter,
           startAngleDegrees, endAngleDegrees, absoluteMouse, bbox,
           segment, pointerPosition >>

rangeVars == << min, max, data, userStep, minMax, step >>
layoutVars == << svgRadii, maxPointerRadii, strokeWidth, svgSize, svgCenter >>
pointerVars == << startAngleDegrees, endAngleDegrees, absoluteMouse, bbox,
                  segment, pointerPosition >>

-----------------------------------------------------------------------------
(* Bounds of the model.                                                    *)

\* numeric settings are the multiples k * NumScale, k in -MaxNum .. MaxNum
MaxNum == 2
NumScale == 50
\* longest categorical data sequence
MaxDataLen == 2
\* layout lengths are k * CoarseLength + f thousandths of a pixel,
\* k in 0 .. MaxCoarse (from 1 for the radii of the ellipse) and
\* f in 0 .. MaxFine
CoarseLength == 5000
MaxCoarse == 1
MaxFine == 3
\* arc angles are the multiples of AngleStep degrees in [0, 360)
AngleStep == 45
\* pointer events fall on a grid of MouseStep thousandths of a pixel,
\* 0 .. MaxMouse steps right of and below the surface's corner
MouseStep == 3000
MaxMouse == 4
\* slack of the ellipse equation, in millionths, for the rounding of the
\* sines and of the points to whole thousandths
EllipseTolerance == 10000

-----------------------------------------------------------------------------
(* JavaScript values.                                                      *)

Num(n) == [t |-> "number", n |-> n, s |-> << >>]
Str(s) == [t |-> "string", n |-> 0, s |-> s]
Fn(id) == [t |-> "function", n |-> id, s |-> << >>]
Undefined == [t |-> "undefined", n |-> 0, s |-> << >>]
Null == [t |-> "null", n |-> 0, s |-> << >>]
Obj == [t |-> "object", n |-> 0, s |-> << >>]

Abs(x) == IF x < 0 THEN -x ELSE x
Max2(a, b) == IF a >= b THEN a ELSE b

Digits == {"0", "1", "2", "3", "4", "5", "6", "7", "8", "9"}

DigitValue(c) ==
    CASE c = "0" -> 0 [] c = "1" -> 1 [] c = "2" -> 2 [] c = "3" -> 3
      [] c = "4" -> 4 [] c = "5" -> 5 [] c = "6" -> 6 [] c = "7" -> 7
      [] c = "8" -> 8 [] c = "9" -> 9

\* a decimal integer literal: an optional minus sign, then one digit or more
IsNumericString(s) ==
    LET body == IF Len(s) > 0 /\ s[1] = "-" THEN Tail(s) ELSE s
    IN  Len(body) > 0 /\ \A i \in 1..Len(body) : body[i] \in Digits

RECURSIVE DigitsValue(_)
DigitsValue(ds) ==
    IF Len(ds) = 0 THEN 0
    ELSE 10 * DigitsValue(SubSeq(ds, 1, Len(ds) - 1)) + DigitValue(ds[Len(ds)])

\* Number(s) for a numeric string
StringToNumber(s) ==
    IF s[1] = "-" THEN - DigitsValue(Tail(s)) ELSE DigitsValue(s)

\* isNumber of mz-math, on the values of the model (numbers are finite)
isNumber(value) ==
    \/ value.t = "number"
    \/ value.t = "string" /\ IsNumericString(value.s)

\* getNumber of ./common: the value as a number, or the default
getNumber(value, defaultValue) ==
    IF isNumber(value)
    THEN IF value.t = "number" THEN value.n ELSE StringToNumber(value.s)
    ELSE defaultValue

MIN_VALUE_DEFAULT == 0
MAX_VALUE_DEFAULT == 100

-----------------------------------------------------------------------------
(* Range/Step resolver.                                                    *)

\* Array.prototype.findIndex(item => item === value), as a 0-based index
RECURSIVE findIndexFrom(_, _, _)
findIndexFrom(items, value, i) ==
    IF i > Len(items) THEN -1
    ELSE IF items[i] = value THEN i - 1
    ELSE findIndexFrom(items, value, i + 1)

findIndex(items, value) == findIndexFrom(items, value, 1)

\* lines 166-168: the first inversion check
firstCheck(mm) ==
    IF mm[1] > mm[2] THEN << mm[1], mm[1] + MAX_VALUE_DEFAULT >> ELSE mm

\* lines 170-172: the second inversion check
secondCheck(mm) ==
    IF mm[2] < mm[1] THEN << mm[1], mm[1] + MAX_VALUE_DEFAULT >> ELSE mm

\* mutant: the lookup resolves to the last matching item
findLastIndex(items, value) ==
    IF \E i \in 1..Len(items) : items[i] = value
    THEN (CHOOSE i \in 1..Len(items) :
            /\ items[i] = value
            /\ \A j \in (i + 1)..Len(items) : items[j] # value) - 1
    ELSE -1

getMinMaxCategoricalLastMatch(mn, mx, items) ==
    LET minIndex == findLastIndex(items, mn)
        maxIndex == findLastIndex(items, mx)
    IN  << IF minIndex = -1 THEN 0 ELSE minIndex,
           IF maxIndex = -1 THEN Len(items) - 1 ELSE maxIndex >>

getMinMaxCategorical(mn, mx, items) ==
    LET minIndex == findIndex(items, mn)
        maxIndex == findIndex(items, mx)
        _min == IF minIndex = -1 THEN 0 ELSE minIndex
        _max == IF maxIndex = -1 THEN Len(items) - 1 ELSE maxIndex
    IN  << _min, _max >>

\* mutant: the correction forgets the offset and sets max to min
getMinMaxNumericNoOffset(mn, mx) ==
    LET _min == getNumber(mn, MIN_VALUE_DEFAULT)
        _max == getNumber(mx, MAX_VALUE_DEFAULT)
    IN  IF _min > _max THEN << _min, _min >> ELSE << _min, _max >>

getMinMaxNumeric(mn, mx) ==
    LET _min == getNumber(mn, MIN_VALUE_DEFAULT)
        _max == getNumber(mx, MAX_VALUE_DEFAULT)
    IN  secondCheck(firstCheck(<< _min, _max >>))

getMinMax(mn, mx, d) ==
    IF d.defined
    THEN getMinMaxCategorical(mn, mx, d.items)
    ELSE getMinMaxNumeric(mn, mx)

\* mutant: a step above the range is clamped to the range
getStepClamped(us, mn, mx) ==
    IF us.t = "null" \/ us.t = "undefined" THEN Undefined
    ELSE IF us.t = "function" THEN us
    ELSE IF isNumber(us)
         THEN LET s == getNumber(us, 1)
                  diff == Abs(mx - mn)
              IN  IF s > diff THEN Num(diff) ELSE Num(s)
         ELSE Undefined

getStep(us, mn, mx) ==
    IF us.t = "null" \/ us.t = "undefined" THEN Undefined
    ELSE IF us.t = "function" THEN us
    ELSE IF isNumber(us)
         THEN LET s == getNumber(us, 1)
                  diff == Abs(mx - mn)
              IN  IF s > diff THEN Undefined ELSE Num(s)
         ELSE Undefined

-----------------------------------------------------------------------------
(* Numbers of the geometry.  An angle in radians is an integer counting    *)
(* half degrees, so that PI is 360 and the half of a whole degree is       *)
(* exact; sines and cosines are thousandths.                               *)

PI == 360

SinTable ==
    << 0, 17, 35, 52, 70, 87, 105, 122, 139, 156, 174, 191, 208, 225, 242,
       259, 276, 292, 309, 326, 342, 358, 375, 391, 407, 423, 438, 454, 469,
       485, 500, 515, 530, 545, 559, 574, 588, 602, 616, 629, 643, 656, 669,
       682, 695, 707, 719, 731, 743, 755, 766, 777, 788, 799, 809, 819, 829,
       839, 848, 857, 866, 875, 883, 891, 899, 906, 914, 921, 927, 934, 940,
       946, 951, 956, 961, 966, 970, 974, 978, 982, 985, 988, 990, 993, 995,
       996, 998, 999, 999, 1000, 1000 >>

\* 1000 * sin and 1000 * cos of a whole number of degrees
SinDeg(d) ==
    LET a == d % 360
    IN  IF a <= 90 THEN SinTable[a + 1]
        ELSE IF a <= 180 THEN SinTable[180 - a + 1]
        ELSE IF a <= 270 THEN - SinTable[a - 180 + 1]
        ELSE - SinTable[360 - a + 1]

CosDeg(d) == SinDeg(d + 90)

\* Math.sin and Math.cos, times 1000, of an angle in radians
MathSin(rad) == SinDeg(rad \div 2)
MathCos(rad) == CosDeg(rad \div 2)

\* Math.round(n / d), d > 0: halves round up
MathRound(n, d) == (2 * n + d) \div (2 * d)

\* setDecimalPlaces(n / d, decimalPlaces) of mz-math, n / d and the result
\* in thousandths: Math.round(num * 10^places) / 10^places
setDecimalPlaces(n, d, decimalPlaces) ==
    LET unit == 10 ^ (3 - decimalPlaces)
    IN  unit * MathRound(n, d * unit)

degreesToRadians(degrees) == (degrees * PI) \div 180
radiansToDegrees(radians) == (radians * 180) \div PI

\* convertRange(value, a1, a2, b1, b2) of mz-math
convertRange(value, a1, a2, b1, b2) ==
    b1 + ((value - a1) * (b2 - b1)) \div (a2 - a1)

v2Sub(a, b) == << a[1] - b[1], a[2] - b[2] >>

\* polarToCartesian(center, radii, angleInRad) of mz-math
polarToCartesian(center, radii, angleInRad) ==
    << center[1] + (radii[1] * MathCos(angleInRad)) \div 1000,
       center[2] + (radii[2] * MathSin(angleInRad)) \div 1000 >>

\* ellipseMovement(center, angle, radius1, radius2) of mz-math: the point
\* whose half-angle tangent is tan(angle), that is the point at 2 * angle
ellipseMovement(center, angle, radius1, radius2) ==
    << center[1] + (radius1 * MathCos(2 * angle)) \div 1000,
       center[2] + (radius2 * MathSin(2 * angle)) \div 1000 >>

\* Math.atan2(y, x) to the nearest whole degree, in (-PI, PI].  Within the
\* quadrant of the vector, x sin d - y cos d grows with d and vanishes in
\* the direction of the vector.
crossAt(v, d) == v[1] * SinDeg(d) - v[2] * CosDeg(d)

RECURSIVE firstNotBefore(_, _, _)
firstNotBefore(v, lo, hi) ==
    IF lo >= hi THEN lo
    ELSE LET mid == (lo + hi) \div 2
         IN  IF crossAt(v, mid) >= 0
             THEN firstNotBefore(v, lo, mid)
             ELSE firstNotBefore(v, mid + 1, hi)

nearestDirection(v) ==
    LET quadrant == IF v[1] > 0 /\ v[2] >= 0 THEN 0
                    ELSE IF v[1] <= 0 /\ v[2] > 0 THEN 90
                    ELSE IF v[1] < 0 /\ v[2] <= 0 THEN 180
                    ELSE 270
        d == firstNotBefore(v, quadrant, quadrant + 90)
        nearest == IF d > quadrant /\ Abs(crossAt(v, d - 1)) < Abs(crossAt(v, d))
                   THEN d - 1 ELSE d
    IN  IF nearest > 180 THEN nearest - 360 ELSE nearest

getV2Angle(v) ==
    IF v[1] = 0 /\ v[2] = 0 THEN 0
    ELSE degreesToRadians(nearestDirection(v))

\* getAnglesSub(a, b) of mz-math: the separation of two angles in degrees
getAnglesSub(angleDegrees1, angleDegrees2) ==
    LET angleDistance == Abs((angleDegrees1 % 360) - (angleDegrees2 % 360))
    IN  IF angleDistance <= 180 THEN angleDistance ELSE 360 - angleDistance

\* isAngleInArc of ./angles-provider
isAngleInArc(startAngleDeg, endAngleDeg, currentDegrees) ==
    LET _endAngleDeg == IF startAngleDeg > endAngleDeg
                        THEN endAngleDeg + 360 ELSE endAngleDeg
    IN  \/ currentDegrees >= startAngleDeg /\ currentDegrees <= _endAngleDeg
        \/ /\ currentDegrees + 360 >= startAngleDeg
           /\ currentDegrees + 360 <= _endAngleDeg

-----------------------------------------------------------------------------
(* Layout calculator.                                                      *)

\* mutant: the pointer's overhang is left out of the canvas
getSVGSizeNoPointer(radii, pointerRadii, sw) ==
    << radii[1] * 2 + sw, radii[2] * 2 + sw >>

getSVGSize(radii, pointerRadii, sw) ==
    LET diffX == Max2(0, pointerRadii[1] * 2 - sw)
        diffY == Max2(0, pointerRadii[2] * 2 - sw)
        svgWidth == radii[1] * 2 + sw + diffX
        svgHeight == radii[2] * 2 + sw + diffY
    IN  << svgWidth, svgHeight >>

getSVGCenter(radii, pointerRadii, sw) ==
    LET size == getSVGSize(radii, pointerRadii, sw)
    IN  << setDecimalPlaces(size[1], 2, 2), setDecimalPlaces(size[2], 2, 2) >>

\* mutant: the flag is computed after the wrap correction
getEllipseSegmentFlagAfterWrap(startDeg, endDeg, radii, pointerRadii, sw) ==
    LET _endAngleDegrees == IF startDeg > endDeg THEN endDeg + 360 ELSE endDeg
        largeArcFlag == IF _endAngleDegrees - startDeg <= 180 THEN 0 ELSE 1
        center == getSVGCenter(radii, pointerRadii, sw)
    IN  [sliderStartPoint |->
            polarToCartesian(center, radii, degreesToRadians(startDeg)),
         sliderEndPoint |->
            polarToCartesian(center, radii, degreesToRadians(_endAngleDegrees)),
         largeArcFlag |-> largeArcFlag,
         endAngleUsed |-> _endAngleDegrees]

\* endAngleUsed is the local _endAngleDegrees after line 66
getEllipseSegment(startDeg, endDeg, radii, pointerRadii, sw) ==
    LET largeArcFlag == IF endDeg - startDeg <= 180 THEN 0 ELSE 1
        _endAngleDegrees == IF startDeg > endDeg THEN endDeg + 360 ELSE endDeg
        center == getSVGCenter(radii, pointerRadii, sw)
    IN  [sliderStartPoint |->
            polarToCartesian(center, radii, degreesToRadians(startDeg)),
         sliderEndPoint |->
            polarToCartesian(center, radii, degreesToRadians(_endAngleDegrees)),
         largeArcFlag |-> largeArcFlag,
         endAngleUsed |-> _endAngleDegrees]

-----------------------------------------------------------------------------
(* Pointer position mapper.                                                *)

\* lines 93-109: the angle of the event around the center, in radians
\* within [0, 2 PI)
pointerAngle(box, mouse, center) ==
    LET relativeMouse == << mouse[1] - box[1], mouse[2] - box[2] >>
        vector == v2Sub(relativeMouse, center)
        angle == getV2Angle(vector)
    IN  IF angle < 0 THEN angle + 2 * PI ELSE angle

\* mutant: a tie between the two separations goes to the end point
getPointerPositionTieToEnd(box, mouse, center, radii, startDeg, endDeg, startPoint, endPoint) ==
    LET angle == pointerAngle(box, mouse, center)
        degrees == radiansToDegrees(angle)
        angleSub1 == getAnglesSub(degrees, startDeg)
        angleSub2 == getAnglesSub(degrees, endDeg)
    IN  IF ~isAngleInArc(startDeg, endDeg, degrees)
        THEN IF angleSub1 < angleSub2 THEN startPoint ELSE endPoint
        ELSE ellipseMovement(center, convertRange(angle, 0, PI * 2, 0, PI),
                             radii[1], radii[2])

\* mutant: the angle goes to ellipseMovement without the range conversion
getPointerPositionNoConvert(box, mouse, center, radii, startDeg, endDeg, startPoint, endPoint) ==
    LET angle == pointerAngle(box, mouse, center)
        degrees == radiansToDegrees(angle)
        angleSub1 == getAnglesSub(degrees, startDeg)
        angleSub2 == getAnglesSub(degrees, endDeg)
    IN  IF ~isAngleInArc(startDeg, endDeg, degrees)
        THEN IF angleSub1 <= angleSub2 THEN startPoint ELSE endPoint
        ELSE ellipseMovement(center, angle, radii[1], radii[2])

getPointerPosition(box, mouse, center, radii, startDeg, endDeg, startPoint, endPoint) ==
    LET angle == pointerAngle(box, mouse, center)
        degrees == radiansToDegrees(angle)
        angleSub1 == getAnglesSub(degrees, startDeg)
        angleSub2 == getAnglesSub(degrees, endDeg)
        isInArc == isAngleInArc(startDeg, endDeg, degrees)
    IN  IF ~isInArc
        THEN IF angleSub1 <= angleSub2 THEN startPoint ELSE endPoint
        ELSE ellipseMovement(center, convertRange(angle, 0, PI * 2, 0, PI),
                             radii[1], radii[2])

-----------------------------------------------------------------------------
(* Inputs of the range specification.                                      *)

Nums == { k * NumScale : k \in -MaxNum..MaxNum }

SampleStrings ==
    { << >>, <<"a">>, <<"b">>, <<"5">>, <<"-", "5">>, <<"1", "5", "0">>,
      <<"5", "a">>, <<"-">> }

\* what a caller can hand in as min or max
BoundValues ==
    {Undefined, Null} \cup {Num(n) : n \in Nums}
                      \cup {Str(s) : s \in SampleStrings}

\* the items of a categorical data sequence
DataItems == {Str(<<"a">>), Str(<<"b">>), Str(<<"5">>), Num(0), Num(NumScale)}

SeqsUpTo(S, n) == UNION { [1..k -> S] : k \in 0..n }

NoData == [defined |-> FALSE, items |-> << >>]
DataValues ==
    {NoData} \cup { [defined |-> TRUE, items |-> q] : q \in SeqsUpTo(DataItems, MaxDataLen) }

\* the TStep type, and one value outside it
StepValues ==
    {Undefined, Null, Fn(1), Obj} \cup {Num(n) : n \in Nums \cup {-1, 1, 2, 3}}

NoVector == << 0, 0 >>
NoSegment ==
    [sliderStartPoint |-> NoVector, sliderEndPoint |-> NoVector,
     largeArcFlag |-> 0, endAngleUsed |-> 0]

RangeIdle ==
    /\ min = Undefined /\ max = Undefined /\ data = NoData
    /\ userStep = Undefined /\ minMax = NoVector /\ step = Undefined
LayoutIdle ==
    /\ svgRadii = NoVector /\ maxPointerRadii = NoVector /\ strokeWidth = 0
    /\ svgSize = NoVector /\ svgCenter = NoVector
PointerIdle ==
    /\ startAngleDegrees = 0 /\ endAngleDegrees = 0
    /\ absoluteMouse = NoVector /\ bbox = NoVector
    /\ segment = NoSegment /\ pointerPosition = NoVector

-----------------------------------------------------------------------------
(* SpecRange: getMinMax, then getStep on the resolved bounds.              *)

InitRange ==
    /\ pc = "settings"
    /\ min \in BoundValues
    /\ max \in BoundValues
    /\ data \in DataValues
    /\ userStep \in StepValues
    /\ minMax = NoVector
    /\ step = Undefined
    /\ LayoutIdle
    /\ PointerIdle

ResolveMinMax ==
    /\ pc = "settings"
    /\ minMax' = getMinMax(min, max, data)
    /\ pc' = "range"
    /\ UNCHANGED << min, max, data, userStep, step, layoutVars, pointerVars >>

ResolveStep ==
    /\ pc = "range"
    /\ step' = getStep(userStep, minMax[1], minMax[2])
    /\ pc' = "step"
    /\ UNCHANGED << min, max, data, userStep, minMax, layoutVars, pointerVars >>

NextRange == ResolveMinMax \/ ResolveStep

SpecRange == InitRange /\ [][NextRange]_vars

-----------------------------------------------------------------------------
(* SpecLayout: getSVGSize, then getSVGCenter.                              *)

Lengths == { k * CoarseLength + f : k \in 0..MaxCoarse, f \in 0..MaxFine }

\* the radii of the ellipse are not zero
EllipseRadii == { r \in Lengths : r >= CoarseLength }

InitLayout ==
    /\ pc = "layout"
    /\ svgRadii \in EllipseRadii \X EllipseRadii
    /\ maxPointerRadii \in Lengths \X Lengths
    /\ strokeWidth \in Lengths
    /\ svgSize = NoVector
    /\ svgCenter = NoVector
    /\ RangeIdle
    /\ PointerIdle

SVGSize ==
    /\ pc = "layout"
    /\ svgSize' = getSVGSize(svgRadii, maxPointerRadii, strokeWidth)
    /\ pc' = "size"
    /\ UNCHANGED << svgRadii, maxPointerRadii, strokeWidth, svgCenter,
                    rangeVars, pointerVars >>

SVGCenter ==
    /\ pc = "size"
    /\ svgCenter' = getSVGCenter(svgRadii, maxPointerRadii, strokeWidth)
    /\ pc' = "center"
    /\ UNCHANGED << svgRadii, maxPointerRadii, strokeWidth, svgSize,
                    rangeVars, pointerVars >>

NextLayout == SVGSize \/ SVGCenter

SpecLayout == InitLayout /\ [][NextLayout]_vars

-----------------------------------------------------------------------------
(* SpecPointer: getEllipseSegment, then getPointerPosition with the        *)
(* segment's end points and the center of the same settings.               *)

Angles == { a \in 0..359 : a % AngleStep = 0 }

\* a circle and two ellipses, whole pixels
RadiiSamples == { << 6000, 6000 >>, << 6000, 3000 >>, << 3000, 9000 >> }

MousePoints ==
    { << i * MouseStep, j * MouseStep >> : i \in 0..MaxMouse, j \in 0..MaxMouse }

BoxCorners == { << 0, 0 >>, << 2000, 7000 >> }

\* the largest pointer's radii and the stroke width: none, and a pointer
\* wider than the stroke
PointerLayouts ==
    { [radii |-> << 0, 0 >>, stroke |-> 0],
      [radii |-> << 1500, 1000 >>, stroke |-> 1000] }

InitPointer ==
    /\ pc = "arc"
    /\ startAngleDegrees \in Angles
    /\ endAngleDegrees \in Angles
    /\ svgRadii \in RadiiSamples
    /\ \E l \in PointerLayouts :
          maxPointerRadii = l.radii /\ strokeWidth = l.stroke
    /\ bbox \in BoxCorners
    /\ \E p \in MousePoints :
          absoluteMouse = << bbox[1] + p[1], bbox[2] + p[2] >>
    /\ svgSize = NoVector
    /\ svgCenter = NoVector
    /\ segment = NoSegment
    /\ pointerPosition = NoVector
    /\ RangeIdle

EllipseSegment ==
    /\ pc = "arc"
    /\ segment' = getEllipseSegment(startAngleDegrees, endAngleDegrees,
                                    svgRadii, maxPointerRadii, strokeWidth)
    /\ svgCenter' = getSVGCenter(svgRadii, maxPointerRadii, strokeWidth)
    /\ pc' = "segment"
    /\ UNCHANGED << svgRadii, maxPointerRadii, strokeWidth, svgSize,
                    startAngleDegrees, endAngleDegrees, absoluteMouse, bbox,
                    pointerPosition, rangeVars >>

PointerPosition ==
    /\ pc = "segment"
    /\ pointerPosition' =
          getPointerPosition(bbox, absoluteMouse, svgCenter, svgRadii,
                             startAngleDegrees, endAngleDegrees,
                             segment.sliderStartPoint, segment.sliderEndPoint)
    /\ pc' = "pointer"
    /\ UNCHANGED << svgRadii, maxPointerRadii, strokeWidth, svgSize, svgCenter,
                    startAngleDegrees, endAngleDegrees, absoluteMouse, bbox,
                    segment, rangeVars >>

NextPointer == EllipseSegment \/ PointerPosition

SpecPointer == InitPointer /\ [][NextPointer]_vars

-----------------------------------------------------------------------------
(* Claims about the range/step resolver, checked under SpecRange.          *)

\* index of the first item equal to value, or the fallback
FirstMatchOr(items, value, fallback) ==
    IF \E i \in 1..Len(items) : items[i] = value
    THEN (CHOOSE i \in 1..Len(items) :
            /\ items[i] = value
            /\ \A j \in 1..(i - 1) : items[j] # value) - 1
    ELSE fallback

\* C1: in numeric and in categorical mode alike, the pair returned by
\* getMinMax satisfies rMin <= rMax.
C1_MinLeMax ==
    pc # "settings" => minMax[1] <= minMax[2]

\* C2: in numeric mode getMinMax returns [m, M], m and M being min and max
\* as numbers or their defaults, when m <= M, and [m, m + MAX_VALUE_DEFAULT]
\* when m > M; the returned min is m, and the second check changes nothing
\* of what the first produced.
C2_NumericResolution ==
    (pc # "settings" /\ ~data.defined) =>
        LET m == getNumber(min, MIN_VALUE_DEFAULT)
            M == getNumber(max, MAX_VALUE_DEFAULT)
        IN  /\ minMax = IF m <= M THEN << m, M >>
                        ELSE << m, m + MAX_VALUE_DEFAULT >>
            /\ minMax[1] = m
            /\ (min \in {Undefined, Null} => m = MIN_VALUE_DEFAULT)
            /\ (max \in {Undefined, Null} => M = MAX_VALUE_DEFAULT)
            /\ secondCheck(firstCheck(<< m, M >>)) = firstCheck(<< m, M >>)

C2_Witness ==
    /\ pc # "settings" /\ ~data.defined
    /\ min.t = "string" /\ max.t = "number"
    /\ getNumber(min, MIN_VALUE_DEFAULT) > getNumber(max, MAX_VALUE_DEFAULT)
    /\ minMax[2] = minMax[1] + MAX_VALUE_DEFAULT

\* C3 as stated: in categorical mode, for every data sequence, getMinMax
\* returns the first-match indices (0 and length - 1 when unmatched), both
\* of them indices into data, and corrects no inversion.
C3_IndicesForEveryData ==
    (pc # "settings" /\ data.defined) =>
        LET n == Len(data.items)
        IN  /\ minMax = << FirstMatchOr(data.items, min, 0),
                           FirstMatchOr(data.items, max, n - 1) >>
            /\ 0 <= minMax[1] /\ minMax[1] <= n - 1
            /\ 0 <= minMax[2] /\ minMax[2] <= n - 1

\* C3 as amended: the same, the two results being indices into data when
\* data is not empty; for empty data the result is [0, -1].
C3_IndicesForNonEmptyData ==
    (pc # "settings" /\ data.defined) =>
        LET n == Len(data.items)
        IN  /\ minMax = << FirstMatchOr(data.items, min, 0),
                           FirstMatchOr(data.items, max, n - 1) >>
            /\ (n > 0 => /\ 0 <= minMax[1] /\ minMax[1] <= n - 1
                         /\ 0 <= minMax[2] /\ minMax[2] <= n - 1)
            /\ (n = 0 => minMax = << 0, -1 >>)

C3_Witness ==
    /\ pc # "settings" /\ data.defined
    /\ Len(data.items) = 2
    /\ data.items[1] = data.items[2]
    /\ max = data.items[2]
    /\ min \notin {data.items[1], data.items[2]}
    /\ minMax = << 0, 0 >>

C5_StepWithinSignedRange ==
    (pc = "step" /\ userStep.t = "number") =>
        /\ (step.t = "number" => step.n <= minMax[2] - minMax[1])
        /\ (userStep.n > minMax[2] - minMax[1] => step = Undefined)

-----------------------------------------------------------------------------
(* Claims about the layout calculator, checked under SpecLayout.           *)

SizeFormula(r, p, s) == 2 * r + s + Max2(0, 2 * p - s)

\* C9 as stated: getSVGSize returns 2 r + s + max(0, 2 p - s) per axis,
\* getSVGCenter half of it rounded to 2 decimals, and on each axis
\* center - r - p >= 0, center + r + p <= size, center - r - s/2 >= 0 and
\* center + r + s/2 <= size.  (The inequalities are doubled to stay whole.)
C9_NeverClips ==
    pc = "center" =>
        \A i \in 1..2 :
            LET r == svgRadii[i]
                p == maxPointerRadii[i]
                s == strokeWidth
                c == svgCenter[i]
            IN  /\ svgSize[i] = SizeFormula(r, p, s)
                /\ c % 10 = 0 /\ Abs(2 * c - svgSize[i]) <= 10
                /\ 2 * c - 2 * r - 2 * p >= 0
                /\ 2 * c + 2 * r + 2 * p <= 2 * svgSize[i]
                /\ 2 * c - 2 * r - s >= 0
                /\ 2 * c + 2 * r + s <= 2 * svgSize[i]

\* C9 as amended: the same size and center; the pointer and the stroked
\* path stay inside the canvas around the exact half of the size, and
\* around the rounded center they leave it by at most the rounding error of
\* 0.005 (10 doubled thousandths), and not at all when the half of the size
\* has at most 2 decimals.
C9_ClipsAtMostByRounding ==
    pc = "center" =>
        \A i \in 1..2 :
            LET r == svgRadii[i]
                p == maxPointerRadii[i]
                s == strokeWidth
                c == svgCenter[i]
                exact == svgSize[i] % 20 = 0
                slack == IF exact THEN 0 ELSE 10
            IN  /\ svgSize[i] = SizeFormula(r, p, s)
                /\ c % 10 = 0 /\ Abs(2 * c - svgSize[i]) <= 10
                /\ (exact => 2 * c = svgSize[i])
                /\ svgSize[i] - 2 * r - 2 * p >= 0
                /\ svgSize[i] - 2 * r - s >= 0
                /\ 2 * c - 2 * r - 2 * p >= - slack
                /\ 2 * c + 2 * r + 2 * p <= 2 * svgSize[i] + slack
                /\ 2 * c - 2 * r - s >= - slack
                /\ 2 * c + 2 * r + s <= 2 * svgSize[i] + slack

C9_Witness ==
    /\ pc = "center"
    /\ svgRadii[1] >= CoarseLength
    /\ 2 * maxPointerRadii[1] > strokeWidth
    /\ svgSize[1] % 20 # 0
    /\ svgCenter[1] - svgRadii[1] - maxPointerRadii[1] < 0

-----------------------------------------------------------------------------
(* Claims about the ellipse segment and the pointer position, checked      *)
(* under SpecPointer.                                                      *)

\* the point of the ellipse at a whole number of degrees
PointAt(center, radii, degrees) ==
    << center[1] + (radii[1] * CosDeg(degrees)) \div 1000,
       center[2] + (radii[2] * SinDeg(degrees)) \div 1000 >>

\* the arc from start to end in the increasing direction, through 0 when
\* end < start
InArc(startDeg, endDeg, a) ==
    IF startDeg <= endDeg
    THEN startDeg <= a /\ a <= endDeg
    ELSE a >= startDeg \/ a <= endDeg

\* min(|a - b|, 360 - |a - b|)
Separation(a, b) ==
    IF Abs(a - b) <= 360 - Abs(a - b) THEN Abs(a - b) ELSE 360 - Abs(a - b)

\* the angle of the pointer event around the center, in degrees in [0, 360)
InputDegrees == radiansToDegrees(pointerAngle(bbox, absoluteMouse, svgCenter))

OnEllipse(point, center, radii) ==
    LET ex == ((point[1] - center[1]) * 1000) \div radii[1]
        ey == ((point[2] - center[2]) * 1000) \div radii[2]
    IN  Abs(ex * ex + ey * ey - 1000000) <= EllipseTolerance

\* C6: for start and end in [0, 360) the largeArcFlag is 1 if and only if
\* the span (endDeg - startDeg) mod 360 exceeds 180 degrees.
C6_FlagIffSpanOver180 ==
    pc \in {"segment", "pointer"} =>
        (segment.largeArcFlag = 1
            <=> ((endAngleDegrees - startAngleDegrees) % 360) > 180)

\* C10: the largeArcFlag is 0 when endDeg - startDeg <= 180 and 1 otherwise,
\* on the raw difference; 360 is added to the end angle only when
\* startDeg > endDeg, only for the end point; the start point is the point
\* at startDeg, and the end angle used is >= startDeg.
C10_FlagFromRawDifference ==
    pc \in {"segment", "pointer"} =>
        LET raw == endAngleDegrees - startAngleDegrees
            used == IF startAngleDegrees > endAngleDegrees
                    THEN endAngleDegrees + 360 ELSE endAngleDegrees
        IN  /\ segment.largeArcFlag = IF raw <= 180 THEN 0 ELSE 1
            /\ (raw < 0 => segment.largeArcFlag = 0)
            /\ segment.endAngleUsed = used
            /\ segment.endAngleUsed >= startAngleDegrees
            /\ segment.sliderStartPoint =
                   PointAt(svgCenter, svgRadii, startAngleDegrees)
            /\ segment.sliderEndPoint = PointAt(svgCenter, svgRadii, used)

C10_Witness ==
    /\ pc = "segment"
    /\ startAngleDegrees > endAngleDegrees
    /\ startAngleDegrees - endAngleDegrees < 180
    /\ segment.endAngleUsed = endAngleDegrees + 360
    /\ segment.largeArcFlag = 0
    /\ segment.sliderEndPoint # segment.sliderStartPoint

\* C7: when the input angle lies outside the active arc, the result is
\* sliderStartPoint if its separation from startDeg is less than or equal
\* to its separation from endDeg, and sliderEndPoint otherwise.
C7_ClampToCloserEnd ==
    (pc = "pointer"
       /\ ~InArc(startAngleDegrees, endAngleDegrees, InputDegrees)) =>
        pointerPosition =
            IF Separation(InputDegrees, startAngleDegrees)
                   <= Separation(InputDegrees, endAngleDegrees)
            THEN segment.sliderStartPoint
            ELSE segment.sliderEndPoint

C7_Witness ==
    /\ pc = "pointer"
    /\ ~InArc(startAngleDegrees, endAngleDegrees, InputDegrees)
    /\ Separation(InputDegrees, startAngleDegrees)
           = Separation(InputDegrees, endAngleDegrees)
    /\ segment.sliderStartPoint # segment.sliderEndPoint
    /\ pointerPosition = segment.sliderStartPoint

\* C8: the point returned by getPointerPosition lies on the ellipse of
\* svgRadii around the center, at the input's own angle when that angle is
\* in the active arc and at the start or the end angle of the arc when it is
\* not, for arcs that wrap through 0 degrees as for the others.
C8_OnEllipseInsideArc ==
    pc = "pointer" =>
        LET a == InputDegrees
        IN  /\ 0 <= a /\ a < 360
            /\ IF InArc(startAngleDegrees, endAngleDegrees, a)
               THEN pointerPosition = PointAt(svgCenter, svgRadii, a)
               ELSE pointerPosition \in
                      { PointAt(svgCenter, svgRadii, startAngleDegrees),
                        PointAt(svgCenter, svgRadii, endAngleDegrees) }
            /\ OnEllipse(pointerPosition, svgCenter, svgRadii)

C8_Witness ==
    /\ pc = "pointer"
    /\ startAngleDegrees > endAngleDegrees
    /\ InputDegrees < endAngleDegrees
    /\ InputDegrees > 0
    /\ pointerPosition = PointAt(svgCenter, svgRadii, InputDegrees)
    /\ pointerPosition \notin
          {segment.sliderStartPoint, segment.sliderEndPoint}

=============================================================================
